---- MODULE Spec2Model ----
(***************************************************************************)
(* Model of src/gcp_function/main.py: the HTTP-triggered ELT function      *)
(* process_banner_events (extract, pre-process, load to staging, five      *)
(* MERGE/INSERT statements) together with the warehouse tables it writes.  *)
(*                                                                         *)
(* Values.  A nullable column value is a sequence of length at most one:   *)
(* NULL is <<>> and V(x) is <<x>>.  Text on which the program performs     *)
(* string operations is a sequence of one-character strings, so the empty  *)
(* string V(<<>>) differs from NULL; text the program only copies and      *)
(* compares is a TLA+ string.  A table is a bag of rows.                   *)
(***************************************************************************)
EXTENDS Integers, Sequences, FiniteSets, Bags, TLC

\* Number of invocations of the function in one behaviour.
MaxRuns == 2

\* Largest number of events one API response carries.
MaxBatch == 2

NULL == <<>>

V(x) == <<x>>

IsNull(v) == v = NULL

Val(v) == v[1]

(***************************************************************************)
(* Text helpers                                                            *)
(***************************************************************************)
Digits == {"0", "1", "2", "3", "4", "5", "6", "7", "8", "9"}

DigitVal(c) ==
    CASE c = "0" -> 0 [] c = "1" -> 1 [] c = "2" -> 2 [] c = "3" -> 3
      [] c = "4" -> 4 [] c = "5" -> 5 [] c = "6" -> 6 [] c = "7" -> 7
      [] c = "8" -> 8 [] c = "9" -> 9

\* Index of the last character of the maximal run of digits that starts at
\* position i of s; i - 1 when s[i] is no digit (the greedy match of \d+).
RECURSIVE DigitRunEnd(_, _)
DigitRunEnd(s, i) ==
    IF i <= Len(s) /\ s[i] \in Digits THEN DigitRunEnd(s, i + 1) ELSE i - 1

\* Value of a non-empty sequence of digit characters.
RECURSIVE DigitsToNat(_)
DigitsToNat(s) ==
    IF Len(s) = 0 THEN 0
    ELSE 10 * DigitsToNat(SubSeq(s, 1, Len(s) - 1)) + DigitVal(s[Len(s)])

\* End of a match of the regular expression \d+x\d+ that starts at position
\* i of s, 0 when there is none.  Both \d+ are greedy and a digit run cannot
\* hold the letter x, so the match takes both maximal runs.
SizeMatchEnd(s, i) ==
    LET j == DigitRunEnd(s, i) IN
    IF j >= i /\ j + 1 <= Len(s) /\ s[j + 1] = "x"
       /\ DigitRunEnd(s, j + 2) >= j + 2
    THEN DigitRunEnd(s, j + 2)
    ELSE 0

(***************************************************************************)
(* preprocess_dataframe: the row-level transformations                     *)
(***************************************************************************)
\* A raw API record is a function from the keys it carries to values; the
\* DataFrame built from a batch gives a record the value NaN for a column
\* that some other record of the batch carries.
Get(r, f) == IF f \in DOMAIN r THEN r[f] ELSE NULL

get_unit(event) ==
    IF event = V("dwell") THEN V("seconds")
    ELSE IF event = V("scroll") THEN V("pixels")
    ELSE V("count")

\* pd.to_numeric(errors='coerce') on text: a run of digits is its number,
\* any other text (and NaN) is NaN.  The inputs modelled are digit strings
\* and words, so signs, decimals and exponents do not arise.
to_numeric(v) ==
    IF IsNull(v) THEN NULL
    ELSE IF Len(Val(v)) > 0 /\ DigitRunEnd(Val(v), 1) = Len(Val(v))
         THEN V(DigitsToNat(Val(v)))
         ELSE NULL

\* Series.str.extract(r'(\d+x\d+)'): the leftmost match anywhere in the
\* text, NaN when there is none.
str_extract_size(v) ==
    IF IsNull(v) THEN NULL
    ELSE LET s == Val(v)
             starts == {i \in 1..Len(s) : SizeMatchEnd(s, i) > 0}
         IN IF starts = {} THEN NULL
            ELSE LET i == CHOOSE k \in starts : \A m \in starts : k <= m
                 IN V(SubSeq(s, i, SizeMatchEnd(s, i)))

\* Series.str.replace(r'_(\d+x\d+)$', '', regex=True): an underscore followed
\* by a size that ends the text is removed.
str_replace_size_suffix(v) ==
    IF IsNull(v) THEN NULL
    ELSE LET s == Val(v)
             cuts == {i \in 1..Len(s) :
                        s[i] = "_" /\ SizeMatchEnd(s, i + 1) = Len(s)}
         IN IF cuts = {} THEN V(s)
            ELSE V(SubSeq(s, 1, (CHOOSE i \in cuts : TRUE) - 1))

\* str.strip(chars): leading and trailing characters of the set removed.
RECURSIVE StripLeft(_, _)
StripLeft(s, chars) ==
    IF Len(s) > 0 /\ s[1] \in chars THEN StripLeft(Tail(s), chars) ELSE s

RECURSIVE StripRight(_, _)
StripRight(s, chars) ==
    IF Len(s) > 0 /\ s[Len(s)] \in chars
    THEN StripRight(SubSeq(s, 1, Len(s) - 1), chars)
    ELSE s

Strip(s, chars) == StripRight(StripLeft(s, chars), chars)

\* str.split(sep): the pieces between separators; the empty text splits to
\* the single piece ''.
RECURSIVE Split(_, _)
Split(s, sep) ==
    LET hits == {i \in 1..Len(s) : s[i] = sep} IN
    IF hits = {} THEN <<s>>
    ELSE LET i == CHOOSE k \in hits : \A m \in hits : k <= m
         IN <<SubSeq(s, 1, i - 1)>> \o Split(SubSeq(s, i + 1, Len(s)), sep)

\* df['category'].str.strip('/').str.split('/', expand=True)
cat_splits(v) == IF IsNull(v) THEN <<>> ELSE Split(Strip(Val(v), {"/"}), "/")

\* cat_splits.get(k): column k of the expanded split, NaN for a row with
\* fewer pieces (and for every row when no row has that many).
cat_level(v, k) ==
    IF k <= Len(cat_splits(v)) THEN V(cat_splits(v)[k]) ELSE NULL

(***************************************************************************)
(* Location standardisation                                                *)
(***************************************************************************)
UpperLetters == <<"A", "B", "C", "D", "E", "F", "G", "H", "I", "J", "K", "L", "M", "N", "O", "P", "Q", "R", "S", "T", "U", "V", "W", "X", "Y", "Z">>

LowerLetters == <<"a", "b", "c", "d", "e", "f", "g", "h", "i", "j", "k", "l", "m", "n", "o", "p", "q", "r", "s", "t", "u", "v", "w", "x", "y", "z">>

LetterIndex(c, letters) == CHOOSE i \in 1..Len(letters) : letters[i] = c

IsUpper(c) == \E i \in 1..Len(UpperLetters) : UpperLetters[i] = c

IsLower(c) == \E i \in 1..Len(LowerLetters) : LowerLetters[i] = c

LowerChar(c) == IF IsUpper(c) THEN LowerLetters[LetterIndex(c, UpperLetters)] ELSE c

UpperChar(c) == IF IsLower(c) THEN UpperLetters[LetterIndex(c, LowerLetters)] ELSE c

\* str.lower()
Lower(s) == [i \in 1..Len(s) |-> LowerChar(s[i])]

\* str.title(): a letter that follows no letter is upper-cased, every other
\* letter lower-cased.
Title(s) ==
    [i \in 1..Len(s) |->
        IF i = 1 \/ ~(IsUpper(s[i - 1]) \/ IsLower(s[i - 1]))
        THEN UpperChar(s[i])
        ELSE LowerChar(s[i])]

\* str.replace(" ", "")
RECURSIVE RemoveSpaces(_)
RemoveSpaces(s) ==
    IF Len(s) = 0 THEN <<>>
    ELSE (IF s[1] = " " THEN <<>> ELSE <<s[1]>>) \o RemoveSpaces(Tail(s))

\* Series.map(COUNTRY_MAPPING): the canonical form of a key, NaN for any other
\* text.  The three keys of the source that hold characters outside ASCII
\* are left out: the modelled alphabet is ASCII, so no input reaches them.
COUNTRY_MAPPING(k) ==
    CASE k = <<"u", "s", "a">> ->
           V(<<"U", "n", "i", "t", "e", "d", " ", "S", "t", "a", "t", "e", "s">>)
      [] k = <<"u", ".", "s", ".", "a", ".">> ->
           V(<<"U", "n", "i", "t", "e", "d", " ", "S", "t", "a", "t", "e", "s">>)
      [] k = <<"u", "n", "i", "t", "e", "d", " ", "s", "t", "a", "t", "e", "s", " ", "o", "f", " ", "a", "m", "e", "r", "i", "c", "a">> ->
           V(<<"U", "n", "i", "t", "e", "d", " ", "S", "t", "a", "t", "e", "s">>)
      [] k = <<"u", "k">> ->
           V(<<"U", "n", "i", "t", "e", "d", " ", "K", "i", "n", "g", "d", "o", "m">>)
      [] k = <<"g", "r", "e", "a", "t", " ", "b", "r", "i", "t", "a", "i", "n">> ->
           V(<<"U", "n", "i", "t", "e", "d", " ", "K", "i", "n", "g", "d", "o", "m">>)
      [] k = <<"e", "n", "g", "l", "a", "n", "d">> ->
           V(<<"U", "n", "i", "t", "e", "d", " ", "K", "i", "n", "g", "d", "o", "m">>)
      [] k = <<"d", "e", "u", "t", "s", "c", "h", "l", "a", "n", "d">> ->
           V(<<"G", "e", "r", "m", "a", "n", "y">>)
      [] k = <<"b", "r", "a", "s", "i", "l">> ->
           V(<<"B", "r", "a", "z", "i", "l">>)
      [] k = <<"t", "h", "e", " ", "n", "e", "t", "h", "e", "r", "l", "a", "n", "d", "s">> ->
           V(<<"N", "e", "t", "h", "e", "r", "l", "a", "n", "d", "s">>)
      [] k = <<"s", "o", "u", "t", "h", " ", "k", "o", "r", "e", "a">> ->
           V(<<"S", "o", "u", "t", "h", " ", "K", "o", "r", "e", "a">>)
      [] k = <<"n", "e", "w", " ", "z", "e", "a", "l", "a", "n", "d">> ->
           V(<<"N", "e", "w", " ", "Z", "e", "a", "l", "a", "n", "d">>)
      [] OTHER -> NULL

\* Series.map(CITY_MAPPING); the two keys with characters outside ASCII are
\* left out as for the countries.
CITY_MAPPING(k) ==
    CASE k = <<"n", "e", "w", "y", "o", "r", "k">> ->
           V(<<"N", "e", "w", " ", "Y", "o", "r", "k">>)
      [] k = <<"n", "y", "c">> ->
           V(<<"N", "e", "w", " ", "Y", "o", "r", "k">>)
      [] k = <<"s", "t", " ", "p", "e", "t", "e", "r", "s", "b", "u", "r", "g">> ->
           V(<<"S", "a", "i", "n", "t", " ", "P", "e", "t", "e", "r", "s", "b", "u", "r", "g">>)
      [] k = <<"s", "t", "p", "e", "t", "e", "r", "s", "b", "u", "r", "g">> ->
           V(<<"S", "a", "i", "n", "t", " ", "P", "e", "t", "e", "r", "s", "b", "u", "r", "g">>)
      [] k = <<"f", "r", "a", "n", "k", "f", "u", "r", "t", " ", "a", "m", " ", "m", "a", "i", "n">> ->
           V(<<"F", "r", "a", "n", "k", "f", "u", "r", "t">>)
      [] k = <<"f", "r", "a", "n", "k", "f", "u", "r", "t", "a", "m", "m", "a", "i", "n">> ->
           V(<<"F", "r", "a", "n", "k", "f", "u", "r", "t">>)
      [] k = <<"s", "f">> ->
           V(<<"S", "a", "n", " ", "F", "r", "a", "n", "c", "i", "s", "c", "o">>)
      [] k = <<"s", "a", "n", "f", "r", "a", "n">> ->
           V(<<"S", "a", "n", " ", "F", "r", "a", "n", "c", "i", "s", "c", "o">>)
      [] k = <<"l", "a">> ->
           V(<<"L", "o", "s", " ", "A", "n", "g", "e", "l", "e", "s">>)
      [] k = <<"l", "o", "s", "a", "n", "g", "e", "l", "e", "s">> ->
           V(<<"L", "o", "s", " ", "A", "n", "g", "e", "l", "e", "s">>)
      [] OTHER -> NULL

\* df['country'].str.lower().str.strip().fillna('')
country_lower(v) == IF IsNull(v) THEN <<>> ELSE Strip(Lower(Val(v)), {" "})

\* df['country_lower'].map(COUNTRY_MAPPING).fillna(df['country'].str.title())
standard_country(v) ==
    IF COUNTRY_MAPPING(country_lower(v)) # NULL
    THEN COUNTRY_MAPPING(country_lower(v))
    ELSE IF IsNull(v) THEN NULL ELSE V(Title(Val(v)))

\* df['city'].str.lower().str.replace(" ", "").str.strip().fillna('')
city_lower(v) ==
    IF IsNull(v) THEN <<>> ELSE Strip(RemoveSpaces(Lower(Val(v))), {" "})

\* df['city_lower'].map(CITY_MAPPING).fillna(df['city'].str.title())
standard_city(v) ==
    IF CITY_MAPPING(city_lower(v)) # NULL
    THEN CITY_MAPPING(city_lower(v))
    ELSE IF IsNull(v) THEN NULL ELSE V(Title(Val(v)))

\* One row of the processed DataFrame: the columns of final_columns, in the
\* order of the source.
final_columns ==
    <<"id", "url", "element_id", "event", "sentiment", "unity_user_id",
      "entities", "ip", "country", "city", "issue_date",
      "banner_name", "banner_size", "unit_name", "unit_value",
      "category_l1", "category_l2", "category_l3">>

preprocess_row(r) ==
    [id            |-> to_numeric(Get(r, "id")),
     url           |-> Get(r, "url"),
     element_id    |-> Get(r, "element_id"),
     event         |-> Get(r, "event"),
     sentiment     |-> to_numeric(Get(r, "sentiment")),
     unity_user_id |-> Get(r, "unity_user_id"),
     entities      |-> Get(r, "entities"),
     ip            |-> Get(r, "ip"),
     country       |-> standard_country(Get(r, "country")),
     city          |-> standard_city(Get(r, "city")),
     issue_date    |-> Get(r, "issue_date"),
     banner_name   |-> str_replace_size_suffix(Get(r, "banner_id")),
     banner_size   |-> str_extract_size(Get(r, "banner_id")),
     unit_name     |-> get_unit(Get(r, "event")),
     unit_value    |-> to_numeric(Get(r, "amount")),
     category_l1   |-> cat_level(Get(r, "category"), 1),
     category_l2   |-> cat_level(Get(r, "category"), 2),
     category_l3   |-> cat_level(Get(r, "category"), 3)]

\* The processed DataFrame: one row per raw record, in order.
preprocess_dataframe(df) == [k \in 1..Len(df) |-> preprocess_row(df[k])]

(***************************************************************************)
(* SQL values and functions used by the five statements                    *)
(***************************************************************************)
\* a = b in an ON clause: TRUE only when both sides are non-null and equal
\* (a comparison with NULL is NULL, which does not match).
SqlEq(a, b) == ~IsNull(a) /\ ~IsNull(b) /\ a = b

COALESCE(v, d) == IF IsNull(v) THEN d ELSE v

CONCAT(a, b) == IF IsNull(a) \/ IsNull(b) THEN NULL ELSE V(Val(a) \o Val(b))

\* FARM_FINGERPRINT: a 64-bit hash of the text.  Collisions of the hash are
\* left out of the model: the key is the text under a tag, so two keys are
\* equal exactly when the hashed texts are.
FARM_FINGERPRINT(v) == IF IsNull(v) THEN NULL ELSE V(<<"fp", Val(v)>>)

At(s, i) == IF i \in 1..Len(s) THEN s[i] ELSE ""

Field(s, a, b) == DigitsToNat(SubSeq(s, a, b))

\* The text s read with the format '%Y-%m-%d %H:%M:%E*S': the six numeric
\* fields and the fraction digits, or <<>> when s does not have that shape
\* or a field is out of range.
TimestampFields(s) ==
    LET y2 == DigitRunEnd(s, 1)
        m1 == y2 + 2
        m2 == DigitRunEnd(s, m1)
        d1 == m2 + 2
        d2 == DigitRunEnd(s, d1)
        h1 == d2 + 2
        h2 == DigitRunEnd(s, h1)
        n1 == h2 + 2
        n2 == DigitRunEnd(s, n1)
        s1 == n2 + 2
        s2 == DigitRunEnd(s, s1)
        f2 == IF At(s, s2 + 1) = "." THEN DigitRunEnd(s, s2 + 2) ELSE s2
        shaped ==
            /\ y2 \in 1..4        /\ At(s, y2 + 1) = "-"
            /\ m2 - m1 \in 0..1   /\ At(s, m2 + 1) = "-"
            /\ d2 - d1 \in 0..1   /\ At(s, d2 + 1) = " "
            /\ h2 - h1 \in 0..1   /\ At(s, h2 + 1) = ":"
            /\ n2 - n1 \in 0..1   /\ At(s, n2 + 1) = ":"
            /\ s2 - s1 \in 0..1
            /\ f2 = Len(s)
            /\ (At(s, s2 + 1) = "." => f2 >= s2 + 2)
    IN IF shaped
          /\ Field(s, 1, y2) >= 1
          /\ Field(s, m1, m2) \in 1..12
          /\ Field(s, d1, d2) \in 1..31
          /\ Field(s, h1, h2) \in 0..23
          /\ Field(s, n1, n2) \in 0..59
          /\ Field(s, s1, s2) \in 0..59
       THEN <<Field(s, 1, y2), Field(s, m1, m2), Field(s, d1, d2),
              Field(s, h1, h2), Field(s, n1, n2), Field(s, s1, s2),
              SubSeq(s, s2 + 2, f2)>>
       ELSE <<>>

\* PARSE_TIMESTAMP raises on a text it cannot read; NULL text gives NULL.
ParseTimestampRaises(v) == ~IsNull(v) /\ TimestampFields(Val(v)) = <<>>

PARSE_TIMESTAMP(v) ==
    IF IsNull(v) \/ TimestampFields(Val(v)) = <<>> THEN NULL
    ELSE V(TimestampFields(Val(v)))

\* CAST(FORMAT_DATE('%Y%m%d', DATE(ts)) AS INT64)
DateKey(ts) ==
    IF IsNull(ts) THEN NULL
    ELSE V(Val(ts)[1] * 10000 + Val(ts)[2] * 100 + Val(ts)[3])

(***************************************************************************)
(* Tables are bags of rows                                                 *)
(***************************************************************************)
RECURSIVE SeqToBag(_)
SeqToBag(rows) ==
    IF Len(rows) = 0 THEN EmptyBag
    ELSE SetToBag({rows[1]}) (+) SeqToBag(Tail(rows))

Rows(T) == BagToSet(T)

RECURSIVE SumOf(_, _)
SumOf(S, T) ==
    IF S = {} THEN 0
    ELSE LET x == CHOOSE y \in S : TRUE
         IN CopiesIn(x, T) + SumOf(S \ {x}, T)

(***************************************************************************)
(* State                                                                   *)
(***************************************************************************)
VARIABLES
    staging,        \* staging_raw_events
    dim_time,       \* dim_time, populated before the function runs
    dim_user,
    dim_location,
    dim_banner,
    dim_content,
    fact_events,
    runs,           \* invocations started so far
    pc,             \* per invocation: where process_banner_events stands
    events_json,    \* per invocation: the records the API returned
    df_processed,   \* per invocation: the processed DataFrame
    i_query,        \* per invocation: the loop index i of run_transformation_sql
    log,            \* per invocation: the lines printed around each job
    rows_affected,  \* per invocation: rows_affected of each completed query
    response,       \* per invocation: the value returned to the caller
    applied         \* history: per statement, the staging batch it last ran on

warehouse ==
    <<staging, dim_time, dim_user, dim_location, dim_banner, dim_content,
      fact_events>>

locals ==
    <<pc, events_json, df_processed, i_query, log, rows_affected, response>>

vars == <<warehouse, runs, locals, applied>>

\* The invocations that may be in flight.
Invocations == {1, 2}

\* The tables a statement reads and writes, as one record; the statements are
\* functions of it.
Tables ==
    [staging      |-> staging,
     dim_time     |-> dim_time,
     dim_user     |-> dim_user,
     dim_location |-> dim_location,
     dim_banner   |-> dim_banner,
     dim_content  |-> dim_content,
     fact_events  |-> fact_events]

(***************************************************************************)
(* run_transformation_sql: the four MERGE statements                       *)
(***************************************************************************)
\* WHEN NOT MATCHED THEN INSERT VALUES(...): the bag of rows a MERGE inserts
\* for the source rows N that no row of the target matches, one row per
\* source row.  rowOf maps each source row of N to its VALUES(...) row.
Inserted(N, rowOf) ==
    [row \in {rowOf[s] : s \in N} |-> Cardinality({s \in N : rowOf[s] = row})]

\* 1. dim_user
UserSource(W) ==
    {[unity_user_id |-> r.unity_user_id] :
        r \in {x \in Rows(W.staging) : ~IsNull(x.unity_user_id)}}

UserOn(t, s) == SqlEq(t.user_id, s.unity_user_id)

\* UserValues with the natural key left out of the INSERT column list.
UserValuesWithoutKey(s) ==
    [user_sk |-> FARM_FINGERPRINT(s.unity_user_id), user_id |-> NULL]

UserValues(s) ==
    [user_sk |-> FARM_FINGERPRINT(s.unity_user_id),
     user_id |-> s.unity_user_id]

UserNotMatched(W) ==
    {s \in UserSource(W) : ~\E t \in Rows(W.dim_user) : UserOn(t, s)}

MergeUser(W) ==
    Inserted(UserNotMatched(W), [s \in UserNotMatched(W) |-> UserValues(s)])

\* 2. dim_location
LocationSource(W) ==
    {[ip |-> r.ip, country |-> r.country, city |-> r.city] :
        r \in {x \in Rows(W.staging) : ~IsNull(x.ip)}}

\* LocationOn with a condition no row satisfies.
LocationOnNothing(t, s) == SqlEq(t.ip_address, NULL)

LocationOn(t, s) == SqlEq(t.ip_address, s.ip)

LocationValues(s) ==
    [location_sk |-> FARM_FINGERPRINT(s.ip),
     ip_address  |-> s.ip,
     country     |-> s.country,
     city        |-> s.city]

LocationNotMatched(W) ==
    {s \in LocationSource(W) :
        ~\E t \in Rows(W.dim_location) : LocationOn(t, s)}

MergeLocation(W) ==
    Inserted(LocationNotMatched(W),
             [s \in LocationNotMatched(W) |-> LocationValues(s)])

\* 3. dim_banner
BannerSource(W) ==
    {[banner_name |-> r.banner_name, banner_size |-> r.banner_size] :
        r \in {x \in Rows(W.staging) : ~IsNull(x.banner_name)}}

\* BannerOn with the sizes compared by plain equality, without COALESCE.
BannerOnPlainEquality(t, s) ==
    /\ SqlEq(t.banner_name, s.banner_name)
    /\ SqlEq(t.banner_size, s.banner_size)

BannerOn(t, s) ==
    /\ SqlEq(t.banner_name, s.banner_name)
    /\ SqlEq(COALESCE(t.banner_size, V(<<>>)), COALESCE(s.banner_size, V(<<>>)))

BannerValues(s) ==
    [banner_sk   |-> FARM_FINGERPRINT(
                        CONCAT(s.banner_name, COALESCE(s.banner_size, V(<<>>)))),
     banner_name |-> s.banner_name,
     banner_size |-> s.banner_size]

BannerNotMatched(W) ==
    {s \in BannerSource(W) : ~\E t \in Rows(W.dim_banner) : BannerOn(t, s)}

MergeBanner(W) ==
    Inserted(BannerNotMatched(W),
             [s \in BannerNotMatched(W) |-> BannerValues(s)])

\* 4. dim_content
ContentSource(W) ==
    {[url |-> r.url, sentiment |-> r.sentiment, entities |-> r.entities,
      category_l1 |-> r.category_l1, category_l2 |-> r.category_l2,
      category_l3 |-> r.category_l3] :
        r \in {x \in Rows(W.staging) : ~IsNull(x.url)}}

ContentOn(t, s) == SqlEq(t.url, s.url)

ContentValues(s) ==
    [content_sk  |-> FARM_FINGERPRINT(s.url),
     url         |-> s.url,
     sentiment   |-> s.sentiment,
     entities    |-> s.entities,
     category_l1 |-> s.category_l1,
     category_l2 |-> s.category_l2,
     category_l3 |-> s.category_l3]

ContentNotMatched(W) ==
    {s \in ContentSource(W) : ~\E t \in Rows(W.dim_content) : ContentOn(t, s)}

MergeContent(W) ==
    Inserted(ContentNotMatched(W),
             [s \in ContentNotMatched(W) |-> ContentValues(s)])

(***************************************************************************)
(* run_transformation_sql: 5. INSERT INTO fact_events ... SELECT           *)
(***************************************************************************)
\* A LEFT JOIN keeps a staging row that matches nothing, with the joined
\* table's columns NULL.
NoTime == [time_sk |-> NULL]

NoUser == [user_sk |-> NULL, user_id |-> NULL]

NoLocation ==
    [location_sk |-> NULL, ip_address |-> NULL, country |-> NULL,
     city |-> NULL]

NoContent ==
    [content_sk |-> NULL, url |-> NULL, sentiment |-> NULL,
     entities |-> NULL, category_l1 |-> NULL, category_l2 |-> NULL,
     category_l3 |-> NULL]

NoBanner == [banner_sk |-> NULL, banner_name |-> NULL, banner_size |-> NULL]

\* LeftJoin as an inner JOIN: a staging row that matches nothing is dropped.
InnerJoin(m, none) == m

\* The rows joined to one staging row: the rows m of the table that the ON
\* clause accepts, or the all-NULL row when there is none.
LeftJoin(m, none) == IF m = {} THEN {none} ELSE m

\* Copies of a joined row: those of the table, one for the all-NULL row.
Copies(t, T) == IF t \in Rows(T) THEN CopiesIn(t, T) ELSE 1

TimeOn(t, s) == SqlEq(t.time_sk, DateKey(PARSE_TIMESTAMP(s.issue_date)))

FactUserOn(u, s) == SqlEq(u.user_id, s.unity_user_id)

FactLocationOn(l, s) == SqlEq(l.ip_address, s.ip)

FactContentOn(c, s) == SqlEq(c.url, s.url)

FactBannerOn(b, s) ==
    /\ SqlEq(b.banner_name, s.banner_name)
    /\ SqlEq(COALESCE(b.banner_size, V(<<>>)), COALESCE(s.banner_size, V(<<>>)))

\* x NOT IN (SELECT event_id FROM fact_events), as a WHERE condition: TRUE
\* when the table is empty, or x is non-null, equals no event_id and no
\* event_id is NULL.
NotInFact(W, x) ==
    \/ Rows(W.fact_events) = {}
    \/ /\ ~IsNull(x)
       /\ \A f \in Rows(W.fact_events) : ~IsNull(f.event_id) /\ f.event_id # x

FactWhere(W, s) == ~IsNull(s.id) /\ NotInFact(W, s.id)

\* FROM staging s LEFT JOIN ... WHERE ...: the joined rows that pass WHERE.
FactJoined(W) ==
    {j \in [s : {x \in Rows(W.staging) : FactWhere(W, x)},
            t : Rows(W.dim_time) \cup {NoTime},
            u : Rows(W.dim_user) \cup {NoUser},
            l : Rows(W.dim_location) \cup {NoLocation},
            c : Rows(W.dim_content) \cup {NoContent},
            b : Rows(W.dim_banner) \cup {NoBanner}] :
        /\ j.t \in LeftJoin({t \in Rows(W.dim_time) : TimeOn(t, j.s)}, NoTime)
        /\ j.u \in LeftJoin({u \in Rows(W.dim_user) : FactUserOn(u, j.s)},
                            NoUser)
        /\ j.l \in LeftJoin({l \in Rows(W.dim_location) :
                                FactLocationOn(l, j.s)}, NoLocation)
        /\ j.c \in LeftJoin({c \in Rows(W.dim_content) :
                                FactContentOn(c, j.s)}, NoContent)
        /\ j.b \in LeftJoin({b \in Rows(W.dim_banner) : FactBannerOn(b, j.s)},
                            NoBanner)}

\* Number of times the joined row occurs in the join of the bags.
JoinedCopies(W, j) ==
    CopiesIn(j.s, W.staging) * Copies(j.t, W.dim_time)
    * Copies(j.u, W.dim_user) * Copies(j.l, W.dim_location)
    * Copies(j.c, W.dim_content) * Copies(j.b, W.dim_banner)

\* The SELECT list.
FactSelect(j) ==
    [event_id        |-> j.s.id,
     event_timestamp |-> PARSE_TIMESTAMP(j.s.issue_date),
     time_sk         |-> j.t.time_sk,
     user_sk         |-> j.u.user_sk,
     content_sk      |-> j.c.content_sk,
     banner_sk       |-> j.b.banner_sk,
     location_sk     |-> j.l.location_sk,
     event_name      |-> j.s.event,
     element_id      |-> j.s.element_id,
     unit_name       |-> j.s.unit_name,
     unit_value      |-> j.s.unit_value]

RECURSIVE SumCopies(_, _)
SumCopies(W, J) ==
    IF J = {} THEN 0
    ELSE LET j == CHOOSE x \in J : TRUE
         IN JoinedCopies(W, j) + SumCopies(W, J \ {j})

\* The bag of rows the INSERT adds.
InsertFact(W) ==
    [row \in {FactSelect(j) : j \in FactJoined(W)} |->
        SumCopies(W, {j \in FactJoined(W) : FactSelect(j) = row})]

\* PARSE_TIMESTAMP is evaluated for the rows the statement reads.  It raises
\* for a row that passes WHERE and holds unreadable text; for a row WHERE
\* rejects it raises or not, as the engine orders the filter and the join.
FactMustRaise(W) ==
    \E s \in Rows(W.staging) :
        FactWhere(W, s) /\ ParseTimestampRaises(s.issue_date)

FactMayRaise(W) ==
    \E s \in Rows(W.staging) : ParseTimestampRaises(s.issue_date)

(***************************************************************************)
(* Inputs: the records the API may return                                  *)
(***************************************************************************)
BaseEvent(id) ==
    [id            |-> V(id),
     url           |-> V("/p"),
     element_id    |-> V("btn"),
     event         |-> V("click"),
     sentiment     |-> V(<<"1">>),
     unity_user_id |-> V("u1"),
     entities      |-> V("e"),
     ip            |-> V("10.0.0.1"),
     country       |-> V(<<"u", "s", "a">>),
     city          |-> V(<<"n", "y", "c">>),
     issue_date    |-> V(<<"2", "0", "2", "4", "-", "0", "1", "-", "0", "1", " ", "0", "0", ":", "0", "0", ":", "0", "0">>),
     banner_id     |-> V(<<"a", "d", "_", "1", "1", "x", "1">>),
     amount        |-> V(<<"7">>),
     category      |-> V(<<"/", "N", "/", "W", "/">>)]

\* A record with every field null.
NullEvent == [f \in DOMAIN BaseEvent(<<"1">>) |-> NULL]

\* A record that carries an id and a date only; the date is not in dim_time.
SparseEvent ==
    [id         |-> V(<<"3">>),
     issue_date |-> V(<<"2", "0", "2", "4", "-", "0", "1", "-", "0", "2", " ", "0", "0", ":", "0", "0", ":", "0", "0">>)]

\* The records: two that differ in id only, one with the same ip, another
\* country and another banner, one with an unreadable timestamp, one whose
\* banner has no size suffix, one with no value at all, and one that lacks
\* most keys.
EventList ==
    <<BaseEvent(<<"1">>),
      BaseEvent(<<"2">>),
      [BaseEvent(<<"2">>) EXCEPT !.country = V(<<"p", "e", "r", "u">>),
                                 !.banner_id = V(<<"a", "d", "1", "_", "1", "x", "1">>)],
      [BaseEvent(<<"2">>) EXCEPT !.issue_date = V(<<"n", "o", "t", "-", "a", "-", "d", "a", "t", "e">>)],
      [BaseEvent(<<"1">>) EXCEPT !.banner_id = V(<<"a", "d">>)],
      NullEvent,
      SparseEvent>>

\* The API responses: lists of at most MaxBatch records.  The statements
\* read the staging table as a bag, so one order per bag is enough.
Batches ==
    {[k \in 1..n |-> EventList[ix[k]]] :
        n \in 0..MaxBatch,
        ix \in {s \in [1..MaxBatch -> 1..Len(EventList)] :
                   \A a, b \in 1..MaxBatch : a <= b => s[a] <= s[b]}}

\* Responses of one record: an event, the event with another id, and the
\* record that lacks most keys.
SingleBatches == {<<EventList[k]>> : k \in {1, 2, Len(EventList)}}

\* pd.DataFrame(events_json): the columns are the keys some record carries.
Columns(df) == UNION {DOMAIN df[k] : k \in 1..Len(df)}

\* The columns preprocess_dataframe reads with df[...]: a column the
\* DataFrame does not have raises KeyError.
ReadColumns ==
    {"event", "amount", "banner_id", "category", "country", "city", "id",
     "sentiment"}

(***************************************************************************)
(* Initial state                                                           *)
(***************************************************************************)
\* dim_time holds the dates the events refer to (the function's docstring).
PopulatedDimTime == SetToBag({[time_sk |-> V(20240101)]})

\* dim_banner as the function may find it on its first run: empty, or with
\* a row of an earlier load whose banner_size is the empty string.
EarlierBanner == [banner_name |-> V(<<"a", "d">>), banner_size |-> V(<<>>)]

InitialDimBanner ==
    {EmptyBag, SetToBag({BannerValues(EarlierBanner)})}

Init ==
    /\ staging = EmptyBag
    /\ dim_time = PopulatedDimTime
    /\ dim_user = EmptyBag
    /\ dim_location = EmptyBag
    /\ dim_banner \in InitialDimBanner
    /\ dim_content = EmptyBag
    /\ fact_events = EmptyBag
    /\ runs = 0
    /\ pc = [i \in Invocations |-> "idle"]
    /\ events_json = [i \in Invocations |-> <<>>]
    /\ df_processed = [i \in Invocations |-> <<>>]
    /\ i_query = [i \in Invocations |-> 0]
    /\ log = [i \in Invocations |-> <<>>]
    /\ rows_affected = [i \in Invocations |-> <<>>]
    /\ response = [i \in Invocations |-> NULL]
    /\ applied = [q \in {"dim_user", "dim_location", "dim_banner",
                         "dim_content", "fact_events"} |-> NULL]

(***************************************************************************)
(* process_banner_events                                                   *)
(***************************************************************************)
\* sql_queries with the fact insert listed before the last dimension merge.
sql_queries_fact_early ==
    <<"dim_user", "dim_location", "dim_banner", "fact_events", "dim_content">>

\* The statements of sql_queries, by the table each writes, in list order.
sql_queries ==
    <<"dim_user", "dim_location", "dim_banner", "dim_content", "fact_events">>

\* DmlInsert as a statement that replaces the table's rows would behave.
DmlOverwrite(T, rows) == rows

\* A DML statement adds its rows to the table and leaves the others.
DmlInsert(T, rows) == T (+) rows

\* The rows statement q inserts when the tables are W.
QueryRows(W, q) ==
    CASE q = "dim_user"     -> MergeUser(W)
      [] q = "dim_location" -> MergeLocation(W)
      [] q = "dim_banner"   -> MergeBanner(W)
      [] q = "dim_content"  -> MergeContent(W)
      [] q = "fact_events"  -> InsertFact(W)

TableOf(W, q) == W[q]

\* The tables after statement q has run on the tables W.
Execute(W, q) == [W EXCEPT ![q] = DmlInsert(W[q], QueryRows(W, q))]

\* The loop of run_transformation_sql from statement k on, when no job
\* fails: the tables after the last statement.
RECURSIVE run_transformation_sql(_, _)
run_transformation_sql(W, k) ==
    IF k > Len(sql_queries) THEN W
    ELSE run_transformation_sql(Execute(W, sql_queries[k]), k + 1)

\* The texts of the exceptions job.result() raises for statement k: a job
\* error of the service for any statement, the parse error of
\* PARSE_TIMESTAMP for the fact insert.
QueryErrors(k) ==
    {"job failed"} \cup
        (IF sql_queries[k] = "fact_events"
         THEN {"Failed to parse input string"} ELSE {})

Return(i, r) ==
    /\ response' = [response EXCEPT ![i] = V(r)]
    /\ pc' = [pc EXCEPT ![i] = "idle"]

\* The locals of a new invocation.
Enter(i) ==
    /\ runs' = runs + 1
    /\ pc' = [pc EXCEPT ![i] = "extract"]
    /\ events_json' = [events_json EXCEPT ![i] = <<>>]
    /\ df_processed' = [df_processed EXCEPT ![i] = <<>>]
    /\ i_query' = [i_query EXCEPT ![i] = 0]
    /\ log' = [log EXCEPT ![i] = <<>>]
    /\ rows_affected' = [rows_affected EXCEPT ![i] = <<>>]
    /\ response' = [response EXCEPT ![i] = NULL]
    /\ UNCHANGED <<warehouse, applied>>

\* The trigger delivers one HTTP call at a time: an invocation starts when
\* none is in flight.
Start(i) ==
    /\ runs < MaxRuns
    /\ \A j \in Invocations : pc[j] = "idle"
    /\ i = 1
    /\ Enter(i)

\* The function holds no lock: an HTTP call that arrives while another is
\* in flight starts at once.  A call takes the first free slot.
StartOverlapping(i) ==
    /\ runs < MaxRuns
    /\ pc[i] = "idle"
    /\ \A j \in Invocations : j < i => pc[j] # "idle"
    /\ Enter(i)

\* FetchFail without the return in the except branch: the function goes on
\* to the load.
FetchFailFallsThrough(i) ==
    /\ pc[i] = "extract"
    /\ response' = [response EXCEPT ![i] =
                       V([status |-> 500, body |-> "API Fetch Error",
                          e |-> "RequestException"])]
    /\ pc' = [pc EXCEPT ![i] = "load"]
    /\ UNCHANGED <<warehouse, runs, events_json, df_processed, i_query, log,
                   rows_affected, applied>>

\* requests.get or raise_for_status raises a RequestException.
FetchFail(i) ==
    /\ pc[i] = "extract"
    /\ Return(i, [status |-> 500, body |-> "API Fetch Error",
                  e |-> "RequestException"])
    /\ UNCHANGED <<warehouse, runs, events_json, df_processed, i_query, log,
                   rows_affected, applied>>

\* FetchEmpty with the staging table emptied before the return.
FetchEmptyTruncates(i) ==
    /\ pc[i] = "extract"
    /\ Return(i, [status |-> 200,
                  body |-> "Success: No new events to process.", e |-> ""])
    /\ staging' = EmptyBag
    /\ UNCHANGED <<dim_time, dim_user, dim_location, dim_banner, dim_content,
                   fact_events, runs, events_json, df_processed, i_query,
                   log, rows_affected, applied>>

\* The API answers with an empty list.
FetchEmpty(i) ==
    /\ pc[i] = "extract"
    /\ Return(i, [status |-> 200,
                  body |-> "Success: No new events to process.", e |-> ""])
    /\ UNCHANGED <<warehouse, runs, events_json, df_processed, i_query, log,
                   rows_affected, applied>>

\* The API answers with one of the lists of records B.
FetchFrom(i, B) ==
    /\ pc[i] = "extract"
    /\ \E batch \in B :
          /\ Len(batch) > 0
          /\ events_json' = [events_json EXCEPT ![i] = batch]
    /\ pc' = [pc EXCEPT ![i] = "preprocess"]
    /\ UNCHANGED <<warehouse, runs, df_processed, i_query, log,
                   rows_affected, response, applied>>

\* The API answers with records.
FetchOk(i) == FetchFrom(i, Batches)

\* The API answers with one record.
FetchOne(i) == FetchFrom(i, SingleBatches)

\* preprocess_dataframe returns the processed DataFrame.
Preprocess(i) ==
    /\ pc[i] = "preprocess"
    /\ ReadColumns \subseteq Columns(events_json[i])
    /\ df_processed' =
          [df_processed EXCEPT ![i] = preprocess_dataframe(events_json[i])]
    /\ pc' = [pc EXCEPT ![i] = "load"]
    /\ UNCHANGED <<warehouse, runs, events_json, i_query, log, rows_affected,
                   response, applied>>

\* preprocess_dataframe raises KeyError on a column no record carries; the
\* call is outside every try, so the invocation ends with the framework's
\* error response.
PreprocessRaise(i) ==
    /\ pc[i] = "preprocess"
    /\ ~(ReadColumns \subseteq Columns(events_json[i]))
    /\ Return(i, [status |-> 500, body |-> "Internal Server Error",
                  e |-> "KeyError"])
    /\ UNCHANGED <<warehouse, runs, events_json, df_processed, i_query, log,
                   rows_affected, applied>>

\* load_table_from_dataframe: the load job is submitted.
LoadSubmit(i) ==
    /\ pc[i] = "load"
    /\ log' = [log EXCEPT ![i] = Append(@, [msg |-> "start", q |-> "staging"])]
    /\ pc' = [pc EXCEPT ![i] = "load_wait"]
    /\ UNCHANGED <<warehouse, runs, events_json, df_processed, i_query,
                   rows_affected, response, applied>>

\* LoadOk with write_disposition WRITE_APPEND: the rows are added to those
\* the table holds.
LoadOkAppend(i) ==
    /\ pc[i] = "load_wait"
    /\ staging' = staging (+) SeqToBag(df_processed[i])
    /\ log' = [log EXCEPT ![i] = Append(@, [msg |-> "end", q |-> "staging"])]
    /\ i_query' = [i_query EXCEPT ![i] = 1]
    /\ pc' = [pc EXCEPT ![i] = "query"]
    /\ UNCHANGED <<dim_time, dim_user, dim_location, dim_banner, dim_content,
                   fact_events, runs, events_json, df_processed,
                   rows_affected, response, applied>>

\* load_job.result() returns: WRITE_TRUNCATE has replaced the table.
LoadOk(i) ==
    /\ pc[i] = "load_wait"
    /\ staging' = SeqToBag(df_processed[i])
    /\ log' = [log EXCEPT ![i] = Append(@, [msg |-> "end", q |-> "staging"])]
    /\ i_query' = [i_query EXCEPT ![i] = 1]
    /\ pc' = [pc EXCEPT ![i] = "query"]
    /\ UNCHANGED <<dim_time, dim_user, dim_location, dim_banner, dim_content,
                   fact_events, runs, events_json, df_processed,
                   rows_affected, response, applied>>

\* LoadFail for a job that had written its first row when it failed.
LoadFailHalfLoaded(i) ==
    /\ pc[i] = "load_wait"
    /\ Return(i, [status |-> 500, body |-> "BigQuery Load Error",
                  e |-> "load job failed"])
    /\ staging' = SeqToBag(SubSeq(df_processed[i], 1, 1))
    /\ UNCHANGED <<dim_time, dim_user, dim_location, dim_banner, dim_content,
                   fact_events, runs, events_json, df_processed, i_query,
                   log, rows_affected, applied>>

\* load_job.result() raises: the job failed and wrote nothing.
LoadFail(i) ==
    /\ pc[i] = "load_wait"
    /\ Return(i, [status |-> 500, body |-> "BigQuery Load Error",
                  e |-> "load job failed"])
    /\ UNCHANGED <<warehouse, runs, events_json, df_processed, i_query, log,
                   rows_affected, applied>>

\* bq_client.query(query): statement i of the list is submitted.
QuerySubmit(i) ==
    /\ pc[i] = "query"
    /\ log' = [log EXCEPT ![i] =
                  Append(@, [msg |-> "start", q |-> sql_queries[i_query[i]]])]
    /\ pc' = [pc EXCEPT ![i] = "query_wait"]
    /\ UNCHANGED <<warehouse, runs, events_json, df_processed, i_query,
                   rows_affected, response, applied>>

\* History: the statement has run on this staging batch once more, or for
\* the first time on a new one (then with the table as it was before).
Applied(q) ==
    IF applied[q] # NULL /\ Val(applied[q]).batch = staging
    THEN V([Val(applied[q]) EXCEPT !.times = @ + 1])
    ELSE V([batch |-> staging, times |-> 1, before |-> TableOf(Tables, q)])

\* job.result() returns: the statement has been applied as a unit.  After
\* the last statement the function returns success.
QueryOk(i) ==
    LET q == sql_queries[i_query[i]]
        rows == QueryRows(Tables, q)
    IN
    /\ pc[i] = "query_wait"
    /\ q = "fact_events" => ~FactMustRaise(Tables)
    /\ dim_user' = IF q = "dim_user" THEN DmlInsert(dim_user, rows) ELSE dim_user
    /\ dim_location' =
          IF q = "dim_location" THEN DmlInsert(dim_location, rows)
          ELSE dim_location
    /\ dim_banner' =
          IF q = "dim_banner" THEN DmlInsert(dim_banner, rows) ELSE dim_banner
    /\ dim_content' =
          IF q = "dim_content" THEN DmlInsert(dim_content, rows)
          ELSE dim_content
    /\ fact_events' =
          IF q = "fact_events" THEN DmlInsert(fact_events, rows)
          ELSE fact_events
    /\ rows_affected' =
          [rows_affected EXCEPT ![i] = Append(@, BagCardinality(rows))]
    /\ log' = [log EXCEPT ![i] = Append(@, [msg |-> "end", q |-> q])]
    /\ applied' = [applied EXCEPT ![q] = Applied(q)]
    /\ IF i_query[i] = Len(sql_queries)
       THEN /\ Return(i, [status |-> 200,
                          body |-> "Success: Pipeline completed.", e |-> ""])
            /\ UNCHANGED i_query
       ELSE /\ i_query' = [i_query EXCEPT ![i] = @ + 1]
            /\ pc' = [pc EXCEPT ![i] = "query"]
            /\ UNCHANGED response
    /\ UNCHANGED <<staging, dim_time, runs, events_json, df_processed>>

\* job.result() raises: the statement changed nothing and the function
\* returns the error.  The parse error arises only when a staging row holds
\* unreadable text.
QueryFail(i) ==
    /\ pc[i] = "query_wait"
    /\ \E e \in QueryErrors(i_query[i]) :
          /\ e = "Failed to parse input string" => FactMayRaise(Tables)
          /\ Return(i, [status |-> 500, body |-> "SQL Transform Error",
                        e |-> e])
    /\ UNCHANGED <<warehouse, runs, events_json, df_processed, i_query, log,
                   rows_affected, applied>>

\* The steps of an invocation once it holds the API's records.
Process(i) ==
    \/ Preprocess(i)
    \/ PreprocessRaise(i)
    \/ LoadSubmit(i)
    \/ LoadOk(i)
    \/ LoadFail(i)
    \/ QuerySubmit(i)
    \/ QueryOk(i)
    \/ QueryFail(i)

Next ==
    \E i \in Invocations :
        \/ Start(i)
        \/ FetchFail(i)
        \/ FetchEmpty(i)
        \/ FetchOk(i)
        \/ Process(i)

Spec == Init /\ [][Next]_vars

\* Invocations that may overlap, each on a response of one record.
NextOverlapping ==
    \E i \in Invocations :
        \/ StartOverlapping(i)
        \/ FetchFail(i)
        \/ FetchEmpty(i)
        \/ FetchOne(i)
        \/ Process(i)

SpecOverlapping == Init /\ [][NextOverlapping]_vars

(***************************************************************************)
(* Properties                                                              *)
(***************************************************************************)
QueryIndex(q) == CHOOSE k \in 1..Len(sql_queries) : sql_queries[k] = q

\* Statement q has completed in invocation i's run.
Ran(i, q) == Len(rows_affected[i]) >= QueryIndex(q)

\* rows_affected of statement q in invocation i's run.
Affected(i, q) == rows_affected[i][QueryIndex(q)]

\* The last two or more executions of statement q read the same batch.
Repeated(q) == applied[q] # NULL /\ Val(applied[q]).times >= 2

\* Number of rows of fact table F with event_id x.
FactCount(F, x) == SumOf({f \in Rows(F) : f.event_id = x}, F)

EventIds(F) == {f.event_id : f \in Rows(F)}

\* Rows of dim_banner whose key equals (name, size) with a NULL size read
\* as the empty string.
BannerCount(name, size) ==
    SumOf({t \in Rows(dim_banner) :
              /\ t.banner_name = name
              /\ COALESCE(t.banner_size, V(<<>>)) = COALESCE(size, V(<<>>))},
          dim_banner)

Dimensions == {"dim_user", "dim_location", "dim_banner", "dim_content"}

\* C1: fact_events holds at most one row per event_id, whatever batches the
\* runs have loaded.
C1_FactEventIdUnique ==
    \A x \in EventIds(fact_events) : FactCount(fact_events, x) = 1

\* C2: every dimension table holds at most one row per natural key: user_id,
\* ip_address, url, and (banner_name, banner_size with NULL read as '').
C2_DimensionKeysUnique ==
    /\ \A t \in Rows(dim_user) :
          SumOf({u \in Rows(dim_user) : u.user_id = t.user_id}, dim_user) = 1
    /\ \A t \in Rows(dim_location) :
          SumOf({l \in Rows(dim_location) : l.ip_address = t.ip_address},
                dim_location) = 1
    /\ \A t \in Rows(dim_content) :
          SumOf({c \in Rows(dim_content) : c.url = t.url}, dim_content) = 1
    /\ \A t \in Rows(dim_banner) :
          BannerCount(t.banner_name, t.banner_size) = 1

\* C3: when the fact insert has run twice in a row on the same staging batch,
\* the second execution inserted no row, and every non-null id of the batch
\* that was absent from fact_events before the first execution has exactly
\* one fact row.
C3_FactInsertTwice ==
    \A i \in Invocations :
        (Ran(i, "fact_events") /\ Repeated("fact_events")) =>
            /\ Affected(i, "fact_events") = 0
            /\ \A s \in Rows(Val(applied["fact_events"]).batch) :
                  (/\ ~IsNull(s.id)
                   /\ s.id \notin EventIds(Val(applied["fact_events"]).before))
                  => FactCount(fact_events, s.id) = 1

\* C4: a dimension MERGE that runs a second time on the same staging batch
\* inserts no row.
C4_MergeTwiceInsertsNothing ==
    \A i \in Invocations : \A q \in Dimensions :
        (Ran(i, q) /\ Repeated(q)) => Affected(i, q) = 0

\* C4 witness: all four merges have run a second time on a batch whose first
\* merge added rows to each dimension.
C4_Witness ==
    \E i \in Invocations : \A q \in Dimensions :
        /\ Ran(i, q)
        /\ Repeated(q)
        /\ Val(applied[q]).before # TableOf(Tables, q)
        /\ Affected(i, q) = 0

\* The non-null ids of batch B occur once each.
DistinctIds(B) ==
    \A s \in Rows(B) :
        ~IsNull(s.id) => SumOf({r \in Rows(B) : r.id = s.id}, B) = 1

\* C5: on a batch whose non-null ids are pairwise distinct, the fact insert
\* adds exactly one row per id that fact_events did not hold and none for an
\* id it held.
C5_ExactFactInsertion ==
    \A i \in Invocations :
        LET a == Val(applied["fact_events"])
            new == {s.id : s \in {r \in Rows(a.batch) : ~IsNull(r.id)}}
                      \ EventIds(a.before)
        IN (/\ Ran(i, "fact_events")
            /\ applied["fact_events"] # NULL
            /\ a.times = 1
            /\ DistinctIds(a.batch))
           => /\ Affected(i, "fact_events") = Cardinality(new)
              /\ \A x \in new : FactCount(fact_events, x) = 1
              /\ \A x \in EventIds(a.before) :
                    FactCount(fact_events, x) = FactCount(a.before, x)

\* C6: a staging row with unreadable issue_date text that the fact insert
\* has to insert does not make the statement fail.
C6_BadTimestampDoesNotFail ==
    \A i \in Invocations :
        ~(/\ response[i] # NULL
          /\ Val(response[i]).body = "SQL Transform Error"
          /\ Val(response[i]).e = "Failed to parse input string"
          /\ FactMustRaise(Tables))

\* A staging row and a dim_banner row with the same name whose sizes are NULL
\* on one side and the empty string on the other.
NullAgainstEmpty(s, t) ==
    /\ ~IsNull(s.banner_name)
    /\ t.banner_name = s.banner_name
    /\ {s.banner_size, t.banner_size} = {NULL, V(<<>>)}

\* C7: while dim_banner holds a row (n, size '') and staging a row (n, size
\* NULL), or the other way round, no step adds a dim_banner row for that key,
\* and a fact insert that inserts the staging row gives it the banner_sk of
\* the existing dimension row.
C7_NullSafeBannerMatch ==
    [][\A s \in Rows(staging) : \A t \in Rows(dim_banner) :
          NullAgainstEmpty(s, t) =>
             /\ BannerCount(s.banner_name, NULL)'
                   = BannerCount(s.banner_name, NULL)
             /\ (fact_events' # fact_events /\ FactWhere(Tables, s)) =>
                   \E f \in Rows(fact_events') :
                      /\ CopiesIn(f, fact_events') > CopiesIn(f, fact_events)
                      /\ f.event_id = s.id
                      /\ f.banner_sk = t.banner_sk]_vars

\* C7 witness: a run over a batch with banner (ad, NULL) has completed while
\* dim_banner held (ad, ''); the merge added nothing and the fact row carries
\* the key of that row.
C7_Witness ==
    \E i \in Invocations : \E s \in Rows(staging) :
        /\ Ran(i, "fact_events")
        /\ Affected(i, "dim_banner") = 0
        /\ s.banner_name = EarlierBanner.banner_name
        /\ IsNull(s.banner_size)
        /\ BannerValues(EarlierBanner) \in Rows(dim_banner)
        /\ BannerCount(s.banner_name, NULL) = 1
        /\ \E f \in Rows(fact_events) :
              /\ f.event_id = s.id
              /\ f.banner_sk = BannerValues(EarlierBanner).banner_sk

\* C8: no step changes or removes an existing row of a dimension table or of
\* fact_events: each table's bag of rows only grows.
C8_AppendOnly ==
    [][/\ dim_user \sqsubseteq dim_user'
       /\ dim_location \sqsubseteq dim_location'
       /\ dim_banner \sqsubseteq dim_banner'
       /\ dim_content \sqsubseteq dim_content'
       /\ fact_events \sqsubseteq fact_events']_vars

\* C8 witness: a second run has inserted fact and dimension rows into tables
\* that already held rows.
C8_Witness ==
    \E i \in Invocations :
        /\ runs = 2
        /\ Ran(i, "fact_events")
        /\ Affected(i, "fact_events") > 0
        /\ BagCardinality(fact_events) > Affected(i, "fact_events")
        /\ Affected(i, "dim_banner") > 0
        /\ BagCardinality(dim_banner) > Affected(i, "dim_banner")

\* Entry a occurs in log l before position k.
LoggedBefore(l, a, k) == \E m \in 1..(k - 1) : l[m] = a

\* C9: within a run a job starts only after the previous one has ended, a
\* dimension merge only after the staging load has ended, and the fact insert
\* only after all four dimension merges have ended.
C9_StepOrder ==
    \A i \in Invocations : \A k \in 1..Len(log[i]) :
        log[i][k].msg = "start" =>
            /\ k > 1 => log[i][k - 1].msg = "end"
            /\ log[i][k].q \in Dimensions =>
                  LoggedBefore(log[i], [msg |-> "end", q |-> "staging"], k)
            /\ log[i][k].q = "fact_events" =>
                  \A d \in Dimensions :
                      LoggedBefore(log[i], [msg |-> "end", q |-> d], k)

\* C9 witness: a run has started and ended the load and all five statements.
C9_Witness ==
    \E i \in Invocations :
        /\ Len(log[i]) = 2 * (Len(sql_queries) + 1)
        /\ log[i][Len(log[i])] = [msg |-> "end", q |-> "fact_events"]

FetchError(r) == r # NULL /\ Val(r).body = "API Fetch Error"

\* C10: the step in which the fetch fails returns status 500 to the caller,
\* ends the run with no job started, and leaves staging, the dimension tables
\* and fact_events as they were.
C10_FetchFailureChangesNothing ==
    [][\A i \in Invocations :
          (pc[i] = "extract" /\ FetchError(response'[i])) =>
             /\ Val(response'[i]).status = 500
             /\ pc'[i] = "idle"
             /\ log'[i] = <<>>
             /\ UNCHANGED warehouse]_vars

\* C10 witness: a run has ended with the fetch error while the tables hold
\* the rows of an earlier run.
C10_Witness ==
    \E i \in Invocations :
        /\ FetchError(response[i])
        /\ pc[i] = "idle"
        /\ staging # EmptyBag
        /\ fact_events # EmptyBag

(***************************************************************************)
(* preprocess_dataframe on its own: one record whose banner_id and category *)
(* are a text over a small alphabet, or a record that lacks columns        *)
(***************************************************************************)
\* Longest text given to preprocess_dataframe.
MaxText == 5

Alphabet == {"a", "_", "1", "x", "/"}

Texts == UNION {[1..n -> Alphabet] : n \in 0..MaxText}

TextEvent(t) ==
    [BaseEvent(<<"1">>) EXCEPT !.banner_id = V(t), !.category = V(t)]

NormalizeInputs == {<<TextEvent(t)>> : t \in Texts} \cup {<<SparseEvent>>}

InitNormalize ==
    /\ staging = EmptyBag
    /\ dim_time = PopulatedDimTime
    /\ dim_user = EmptyBag
    /\ dim_location = EmptyBag
    /\ dim_banner = EmptyBag
    /\ dim_content = EmptyBag
    /\ fact_events = EmptyBag
    /\ runs = 1
    /\ pc = [i \in Invocations |-> IF i = 1 THEN "preprocess" ELSE "idle"]
    /\ \E df \in NormalizeInputs :
          events_json = [i \in Invocations |-> IF i = 1 THEN df ELSE <<>>]
    /\ df_processed = [i \in Invocations |-> <<>>]
    /\ i_query = [i \in Invocations |-> 0]
    /\ log = [i \in Invocations |-> <<>>]
    /\ rows_affected = [i \in Invocations |-> <<>>]
    /\ response = [i \in Invocations |-> NULL]
    /\ applied = [q \in {"dim_user", "dim_location", "dim_banner",
                         "dim_content", "fact_events"} |-> NULL]

NextNormalize == \E i \in Invocations : Preprocess(i) \/ PreprocessRaise(i)

SpecNormalize == InitNormalize /\ [][NextNormalize]_vars

LoadError(r) == r # NULL /\ Val(r).body = "BigQuery Load Error"

\* Invocation i is between its load and the end of its last statement.
Transforming(i) == pc[i] \in {"query", "query_wait"}

\* C11: the step in which the staging load fails returns status 500, ends the
\* run with no statement executed and leaves staging, the dimension tables
\* and fact_events as they were; and a run that executes statements reads a
\* staging table that holds its whole batch.
C11_LoadFailureChangesNothing ==
    [][\A i \in Invocations :
          /\ (pc[i] = "load_wait" /\ LoadError(response'[i])) =>
                /\ Val(response'[i]).status = 500
                /\ pc'[i] = "idle"
                /\ rows_affected'[i] = <<>>
                /\ \A k \in 1..Len(log'[i]) : log'[i][k].q = "staging"
                /\ UNCHANGED warehouse
          /\ Transforming(i)' => staging' = SeqToBag(df_processed'[i])]_vars

\* C11 witness: the load of a second run has failed; staging still holds the
\* batch of the first run, which differs from the one that failed to load.
C11_Witness ==
    \E i \in Invocations :
        /\ LoadError(response[i])
        /\ pc[i] = "idle"
        /\ runs = 2
        /\ staging # EmptyBag
        /\ staging # SeqToBag(df_processed[i])
        /\ fact_events # EmptyBag

TransformError(r) == r # NULL /\ Val(r).body = "SQL Transform Error"

\* C12: a run in which statement k failed returned status 500, executed no
\* statement after k, and returned a text that names k: no other statement's
\* failure returns the same text.
C12_FailingStepIdentified ==
    \A i \in Invocations :
        TransformError(response[i]) =>
            /\ Val(response[i]).status = 500
            /\ Len(rows_affected[i]) = i_query[i] - 1
            /\ {k \in 1..Len(sql_queries) :
                   Val(response[i]).e \in QueryErrors(k)} = {i_query[i]}

NoEvents(r) ==
    r # NULL /\ Val(r).body = "Success: No new events to process."

\* C13: the step in which the API returns an empty list returns status 200,
\* ends the run with no job started, and leaves staging, the dimension tables
\* and fact_events as they were.
C13_EmptyResultChangesNothing ==
    [][\A i \in Invocations :
          (pc[i] = "extract" /\ NoEvents(response'[i])) =>
             /\ Val(response'[i]).status = 200
             /\ pc'[i] = "idle"
             /\ log'[i] = <<>>
             /\ rows_affected'[i] = <<>>
             /\ UNCHANGED warehouse]_vars

\* C13 witness: a run has ended on an empty result while staging and
\* fact_events hold the rows of an earlier run.
C13_Witness ==
    \E i \in Invocations :
        /\ NoEvents(response[i])
        /\ pc[i] = "idle"
        /\ staging # EmptyBag
        /\ fact_events # EmptyBag

\* C14: for every fetched batch, also one in which a column is missing from
\* all records, pre-processing ends with one row per record, each with the
\* columns of final_columns, and with no error returned.
C14_NormalizeNeverRaises ==
    \A i \in Invocations :
        (events_json[i] # <<>> /\ pc[i] # "preprocess") =>
            /\ Len(df_processed[i]) = Len(events_json[i])
            /\ \A k \in 1..Len(df_processed[i]) :
                  DOMAIN df_processed[i][k]
                     = {final_columns[c] : c \in 1..Len(final_columns)}
            /\ ~(response[i] # NULL /\ Val(response[i]).e = "KeyError")

\* The text u is digits, the letter x, digits.
IsSize(u) ==
    \E k \in 2..(Len(u) - 1) :
        /\ u[k] = "x"
        /\ \A m \in 1..Len(u) : m # k => u[m] \in Digits

\* C15: a banner_id that ends with an underscore and a size gives that size
\* as banner_size and the text before the underscore as banner_name; any
\* other banner_id gives a null banner_size and itself as banner_name.
C15_BannerDecomposition ==
    \A i \in Invocations : \A k \in 1..Len(df_processed[i]) :
        LET v == Get(events_json[i][k], "banner_id")
            s == Val(v)
            row == df_processed[i][k]
            cuts == {c \in 1..Len(s) :
                        s[c] = "_" /\ IsSize(SubSeq(s, c + 1, Len(s)))}
        IN ~IsNull(v) =>
              IF cuts # {}
              THEN \E c \in cuts :
                      /\ row.banner_size = V(SubSeq(s, c + 1, Len(s)))
                      /\ row.banner_name = V(SubSeq(s, 1, c - 1))
              ELSE /\ row.banner_size = NULL
                   /\ row.banner_name = v

\* C16: the category levels are the first three pieces of the category
\* stripped of leading and trailing '/' and split on '/', null where there
\* are fewer pieces; an empty or absent category gives three null levels.
C16_CategoryLevels ==
    \A i \in Invocations : \A k \in 1..Len(df_processed[i]) :
        LET v == Get(events_json[i][k], "category")
            row == df_processed[i][k]
            pieces == IF IsNull(v) \/ Val(v) = <<>> THEN <<>>
                      ELSE Split(Strip(Val(v), {"/"}), "/")
            level(n) == IF n <= Len(pieces) THEN V(pieces[n]) ELSE NULL
        IN /\ row.category_l1 = level(1)
           /\ row.category_l2 = level(2)
           /\ row.category_l3 = level(3)

\* No row of the dimension carries the staging row's natural key.
NoUserFor(s) ==
    IsNull(s.unity_user_id)
    \/ \A u \in Rows(dim_user) : u.user_id # s.unity_user_id

NoLocationFor(s) ==
    IsNull(s.ip) \/ \A l \in Rows(dim_location) : l.ip_address # s.ip

NoContentFor(s) ==
    IsNull(s.url) \/ \A c \in Rows(dim_content) : c.url # s.url

NoBannerFor(s) ==
    IsNull(s.banner_name) \/ BannerCount(s.banner_name, s.banner_size) = 0

NoTimeFor(s) ==
    IsNull(s.issue_date)
    \/ \A t \in Rows(dim_time) :
          t.time_sk # DateKey(PARSE_TIMESTAMP(s.issue_date))

\* C17: the step in which the fact insert completes inserts, for every
\* staging row with a non-null id that fact_events did not hold, a row with
\* that id whose foreign key is null for each dimension that has no row for
\* the staging row's natural key.
C17_UnmatchedLookupKeepsRow ==
    [][\A i \in Invocations :
          (/\ pc[i] = "query_wait"
           /\ sql_queries[i_query[i]] = "fact_events"
           /\ Len(rows_affected'[i]) > Len(rows_affected[i])) =>
             \A s \in Rows(staging) :
                FactWhere(Tables, s) =>
                   \E f \in Rows(fact_events') :
                      /\ CopiesIn(f, fact_events') > CopiesIn(f, fact_events)
                      /\ f.event_id = s.id
                      /\ NoUserFor(s) => f.user_sk = NULL
                      /\ NoLocationFor(s) => f.location_sk = NULL
                      /\ NoContentFor(s) => f.content_sk = NULL
                      /\ NoBannerFor(s) => f.banner_sk = NULL
                      /\ NoTimeFor(s) => f.time_sk = NULL]_vars

\* C17 witness: fact_events holds the row of a record that has an id, a date
\* dim_time lacks and no other value, with all five foreign keys null.
C17_Witness ==
    \E f \in Rows(fact_events) :
        /\ f.event_id = V(3)
        /\ f.time_sk = NULL
        /\ f.user_sk = NULL
        /\ f.location_sk = NULL
        /\ f.content_sk = NULL
        /\ f.banner_sk = NULL

\* Every statement last ran on the batch staging holds, the fact insert once.
CompletedOnBatch ==
    /\ \A q \in DOMAIN applied :
          applied[q] # NULL /\ Val(applied[q]).batch = staging
    /\ Val(applied["fact_events"]).times = 1

\* The tables as they were before the first statement ran on the batch.
BeforeBatch ==
    [staging      |-> staging,
     dim_time     |-> dim_time,
     dim_user     |-> Val(applied["dim_user"]).before,
     dim_location |-> Val(applied["dim_location"]).before,
     dim_banner   |-> Val(applied["dim_banner"]).before,
     dim_content  |-> Val(applied["dim_content"]).before,
     fact_events  |-> Val(applied["fact_events"]).before]

\* C18: when a run has completed on a batch, after earlier runs on the same
\* batch that failed once some of the merges had been applied, the tables
\* are those one run without failure gives from the tables as they were
\* before the first of these runs.
C18_RetryEqualsSingleRun ==
    \A i \in Invocations :
        (Ran(i, "fact_events") /\ CompletedOnBatch) =>
            Tables = run_transformation_sql(BeforeBatch, 1)

\* C18 witness: a run has completed on the batch of a run that failed after
\* the first two merges had added rows; the retry added rows with the other
\* three statements only.
C18_Witness ==
    \E i \in Invocations :
        /\ Ran(i, "fact_events")
        /\ CompletedOnBatch
        /\ Val(applied["dim_user"]).times = 2
        /\ Val(applied["dim_location"]).times = 2
        /\ Val(applied["dim_banner"]).times = 1
        /\ Val(applied["dim_content"]).times = 1
        /\ Val(applied["dim_user"]).before # dim_user
        /\ Val(applied["dim_location"]).before # dim_location
        /\ Affected(i, "dim_user") = 0
        /\ Affected(i, "dim_location") = 0
        /\ Affected(i, "dim_banner") > 0
        /\ Affected(i, "dim_content") > 0
        /\ Affected(i, "fact_events") > 0

\* The non-null ids of the rows of table or DataFrame bag B.
IdsOf(B) == {s.id : s \in {r \in Rows(B) : ~IsNull(r.id)}}

\* C19: with overlapping invocations, a load replaces the staging table by
\* the loading invocation's batch also while another invocation is between
\* its load and its last statement, and the fact insert of an invocation
\* inserts ids of the rows staging holds at that moment only, whichever
\* invocation loaded them, and then returns status 200.
C19_SharedStagingInterference ==
    [][\A i \in Invocations :
          /\ (pc[i] = "load_wait" /\ Transforming(i)') =>
                /\ staging' = SeqToBag(df_processed[i])
                /\ \A j \in Invocations \ {i} : pc'[j] = pc[j]
          /\ (/\ pc[i] = "query_wait"
              /\ sql_queries[i_query[i]] = "fact_events"
              /\ Len(rows_affected'[i]) > Len(rows_affected[i])) =>
                /\ EventIds(fact_events') \ EventIds(fact_events)
                      \subseteq IdsOf(staging)
                /\ Val(response'[i]).status = 200]_vars

\* C19 witness: an invocation has returned success after its statements read
\* the batch the other invocation loaded, and an id of its own batch is in
\* neither staging nor fact_events.
C19_Witness ==
    \E i \in Invocations : \E j \in Invocations \ {i} :
        /\ response[i] # NULL
        /\ Val(response[i]).body = "Success: Pipeline completed."
        /\ Ran(i, "fact_events")
        /\ staging = SeqToBag(df_processed[j])
        /\ staging # SeqToBag(df_processed[i])
        /\ \E x \in IdsOf(SeqToBag(df_processed[i])) :
              x \notin EventIds(fact_events)

\* C20: two rows of dim_banner with the same banner_sk have the same natural
\* key (banner_name, banner_size with NULL read as '').
C20_BannerKeyUnique ==
    \A a, b \in Rows(dim_banner) :
        a.banner_sk = b.banner_sk =>
            /\ a.banner_name = b.banner_name
            /\ COALESCE(a.banner_size, V(<<>>))
                  = COALESCE(b.banner_size, V(<<>>))

====
